---- MODULE Spec2Model ----
(***************************************************************************)
(* Medical Claim Evidence Resolution Pipeline.                             *)
(*                                                                         *)
(* Model of src/medical_reviewer.py (MedicalReviewer.analyze,              *)
(* _process_pubmed_queries, calculate_score) and src/pubmed_service.py     *)
(* (PubMedService.search, _search_sync behind lru_cache,                   *)
(* calculate_relevance_score).                                             *)
(*                                                                         *)
(* The specifications share the variables:                                 *)
(*   Spec       one analyze call: extraction reply, resolver loop over     *)
(*              pubmed_queries_needed, score recomputation, report;        *)
(*   SpecScore  calculate_score run as its counting loop over a claim list *)
(*              whose elements are read one by one;                        *)
(*   SpecRel    calculate_relevance_score applied to a query and article;  *)
(*   SpecExample one analyze call on the flagged claims of the worked      *)
(*              example, with two query texts and a caller's deadline;     *)
(*   SpecService the searches of a process: PubMedService instances and    *)
(*              the lru_cache of _search_sync they share;                  *)
(*   SpecValidate validate_response run as its checks and its loop;        *)
(*   SpecOrder  the resolver loop over one entry list, taken in any order; *)
(*   SpecThreads threads searching on one PubMedService at the same time;  *)
(*   SpecParse  _parse_pubmed_xml on one element, and the record's score.  *)
(*                                                                         *)
(* Python values: a text is a sequence of whitespace-separated words; an   *)
(* optional dictionary entry is a record [kind, val] with kind "absent"    *)
(* (key missing), "none" (key present, value None) or "str"/"int".         *)
(* Floating-point results are kept as exact fractions [num, den].          *)
(***************************************************************************)
EXTENDS Integers, Sequences, FiniteSets, TLC

VARIABLES
    \* calculate_score's loop (SpecScore)
    sc_pc,            \* "loop" while claims are read, "returned" after return
    total_claims,     \* claims read so far; len(claims) when the loop ends
    status_counts,    \* status_counts dict
    severity_counts,  \* severity_counts dict
    no_severity,      \* claims read whose severity is None
    final_score,      \* the value returned
    \* calculate_relevance_score (SpecRel)
    rel_pc,           \* "call" before the call, "returned" after
    rel_query,
    rel_article,
    rel_result,
    \* one MedicalReviewer.analyze call (Spec)
    pc,               \* "start", "resolve" (inside _process_pubmed_queries), "done"
    claims,           \* result["claims"]
    overall_score,    \* result["overall_score"]
    present,          \* shape of the report dict: is overall_score a key, is claims a list
    extraction,       \* id, claim_text, claim_type, location of the reply's claims (history)
    error,            \* the report's error field: "NONE" when it has none
    processed,        \* entries of pubmed_queries_needed the loop has consumed
    cache,            \* lru_cache of _search_sync: key -> cached tuple, or a miss
    cancel_at,        \* entries consumed when the caller's deadline passed, -1 before (history)
    last,             \* what the latest step did (history, for the properties)
    summary,          \* result["summary"], which the reply carries
    \* PubMedService.search calls of a process (SpecService)
    lru,              \* the lru_cache of _search_sync, least recently used entry first
    svc_last,         \* what the latest search did (history, for the properties)
    \* one validate_response call (SpecValidate)
    val_pc,           \* "start", "loop" (over data["claims"]), "returned"
    val_top,          \* the parsed value: its type, its overall_score and claims entries
    val_read,         \* elements of claims the loop has read
    val_claim,        \* the element read last
    val_result,       \* "True", "False", or the exception raised; "none" before
    \* the resolver loop over one entry list taken in any order (SpecOrder)
    ord_pc,           \* "start", "resolve", "done"
    ord_input,        \* the reply's claims, its entry per claim, the service's answers
    ord_claims,       \* result["claims"]
    ord_pending,      \* ids of the claims whose entry has not been processed
    ord_error,        \* the report's error field: "NONE" when it has none
    ord_score,        \* result["overall_score"]
    \* threads searching on one PubMedService (SpecThreads)
    thr_pc,           \* per thread: "idle", "running", "returned", "raised"
    thr_tuple,        \* per thread: the arguments of its search
    thr_result,       \* per thread: what its search returned
    thr_cache,        \* per argument tuple: what the lru_cache holds
    thr_calls,        \* per argument tuple: the runs of _search_sync so far
    \* _parse_pubmed_xml on one PubmedArticle element (SpecParse)
    par_pc,           \* "start", "parsed", "scored"
    par_elem,         \* the element's children
    par_article,      \* the record built from it
    par_result        \* calculate_relevance_score of the record

score_vars == <<sc_pc, total_claims, status_counts, severity_counts, no_severity, final_score>>
rel_vars == <<rel_pc, rel_query, rel_article, rel_result>>
analyze_vars ==
    <<pc, claims, overall_score, present, extraction, error, processed, cache, cancel_at, last,
      summary>>
service_vars == <<lru, svc_last>>
validate_vars == <<val_pc, val_top, val_read, val_claim, val_result>>
order_vars == <<ord_pc, ord_input, ord_claims, ord_pending, ord_error, ord_score>>
thread_vars == <<thr_pc, thr_tuple, thr_result, thr_cache, thr_calls>>
parse_vars == <<par_pc, par_elem, par_article, par_result>>
vars == <<score_vars, rel_vars, analyze_vars, service_vars, validate_vars, order_vars, thread_vars, parse_vars>>

\* ------------------------------------------------------------- bounds
MaxQueryWords == 2      \* words in a search query
MaxTitleWords == 2      \* words in an article title
MaxAbstractWords == 1   \* words in an article abstract
YearSpan == 6           \* publication years range over CurrentYear -/+ YearSpan
MaxScoreLen == 4        \* claims read by calculate_score's loop
MaxClaims == 2          \* claims in an extraction reply
MaxQueries == 2         \* entries of pubmed_queries_needed
MaxResults == 2         \* articles one search returns (retmax is 5 in the code)
MaxServices == 2        \* PubMedService instances alive in the process
CacheCapacity == 2      \* entries the lru_cache holds (maxsize is 1000 in the code)
MaxValidated == 2       \* elements of claims read by validate_response's loop
MaxThreads == 2         \* threads searching at the same time
MaxAuthors == 6         \* Author elements of one PubmedArticle

\* datetime.now().year
CurrentYear == 2026

\* ------------------------------------------------------ python values
Absent == [kind |-> "absent", val |-> <<>>]
PyNone == [kind |-> "none", val |-> <<>>]
Str(s) == [kind |-> "str", val |-> s]

\* dict.get(key, default): the default only when the key is missing
Get(entry, default) == IF entry.kind = "absent" THEN default ELSE entry

Max(a, b) == IF a >= b THEN a ELSE b
Min(a, b) == IF a <= b THEN a ELSE b

\* --------------------------------------------------------------- text
Words == {"hba1c", "HbA1c", "reduction"}

\* str.lower() on one word
LowerWord(w) == IF w = "HbA1c" THEN "hba1c" ELSE w

\* set(text.lower().split())
TermSet(text) == {LowerWord(text[i]) : i \in 1..Len(text)}

TextsUpTo(n) == UNION {[1..k -> Words] : k \in 0..n}

\* ------------------------------------------------- relevance scoring
\* int(article.get("year", current_year)) with the ValueError handler:
\* a digit string parses, any other string falls back to the current year.
PubYear(article) ==
    LET y == Get(article.year, [kind |-> "int", val |-> CurrentYear])
    IN  IF y.kind = "int" THEN y.val
        ELSE IF y.kind = "digits" THEN y.val
        ELSE CurrentYear

\* mutant: the boost without its floor at 0
RecencyBoostUnfloored(article) == (5 - (CurrentYear - PubYear(article))) * 2

\* max(0, (5 - (current_year - pub_year)) * 0.02), in hundredths
RecencyBoost(article) == Max(0, (5 - (CurrentYear - PubYear(article))) * 2)

\* weights of the title and abstract overlaps, in hundredths
TitleWeight == 60
AbstractWeight == 40

Raised(what) == [raised |-> what, num |-> 0, den |-> 1]
Value(n, d) == [raised |-> "no", num |-> n, den |-> d]

\* PubMedService.calculate_relevance_score: the score as the fraction
\* num/den, or the exception a None title or abstract raises at .lower()
calculate_relevance_score(query, article) ==
    LET title == Get(article.title, Str(<<>>))
        abstract == Get(article.abstract, Str(<<>>))
    IN  IF title.kind = "none" \/ abstract.kind = "none"
        THEN Raised("AttributeError")
        ELSE
          LET query_terms == TermSet(query)
              title_terms == TermSet(title.val)
              abstract_terms == TermSet(abstract.val)
              n == Max(Cardinality(query_terms), 1)
              \* (title_overlap * 0.6 + abstract_overlap * 0.4) * 100 * n
              score == Cardinality(query_terms \cap title_terms) * TitleWeight
                       + Cardinality(query_terms \cap abstract_terms) * AbstractWeight
              boost == RecencyBoost(article) * n
          IN  Value(Min(100 * n, score + boost), 100 * n)

\* ------------------------------------------------------------ scoring
Statuses == {"SUBSTANTIATED_BACKUP", "SUBSTANTIATED_PUBMED", "PARTIALLY_SUBSTANTIATED",
             "NEEDS_PUBMED_CHECK", "UNSUBSTANTIATED", "CONTRADICTED", "OVERSTATED"}
CountedSeverities == {"CRITICAL", "MAJOR", "MINOR"}
\* "NONE" stands for Python's None (a null or missing severity)
Severities == CountedSeverities \cup {"NONE"}
\* values the extraction step may emit outside the enumerations
UnknownStatus == "SUPPORTED"
UnknownSeverity == "LOW"

\* round(): to the nearest integer, a tie to the even one
Round(num, den) ==
    LET q == num \div den
        r == num % den
    IN  IF 2 * r < den THEN q
        ELSE IF 2 * r > den THEN q + 1
        ELSE IF q % 2 = 0 THEN q ELSE q + 1

\* mutant: MINOR findings credited instead of deducted
DeductionsMinorCredited(sev) == sev["CRITICAL"] * 15 + sev["MAJOR"] * 8 - sev["MINOR"] * 3

\* deductions, medical_reviewer.py lines 319-323
Deductions(sev) == sev["CRITICAL"] * 15 + sev["MAJOR"] * 8 + sev["MINOR"] * 3

\* mutant: a claim waiting for its lookup counts as substantiated, one
\* the lookup has substantiated does not
BaseNumeratorCountingPending(st) ==
    (2 * (st["SUBSTANTIATED_BACKUP"] + st["NEEDS_PUBMED_CHECK"])
       + st["PARTIALLY_SUBSTANTIATED"]) * 50

\* (substantiated * 1.0 + partially * 0.5) * 100, before the division
\* by total_claims, in halves: 2 * substantiated + partially, times 50
BaseNumerator(st) ==
    (2 * (st["SUBSTANTIATED_BACKUP"] + st["SUBSTANTIATED_PUBMED"])
       + st["PARTIALLY_SUBSTANTIATED"]) * 50

\* mutant: int() in place of round()
ScoreOfTruncating(total, st, sev) ==
    LET num == BaseNumerator(st) - Deductions(sev) * total
    IN  Max(0, Min(100 * total, num)) \div total

\* lines 310-327: round(max(0, min(100, base_score - deductions)))
ScoreOf(total, st, sev) ==
    LET num == BaseNumerator(st) - Deductions(sev) * total
    IN  Round(Max(0, Min(100 * total, num)), total)

ZeroStatusCounts == [s \in Statuses |-> 0]
ZeroSeverityCounts == [s \in CountedSeverities |-> 0]

\* lines 300-303: one loop iteration's update of status_counts
CountStatus(st, status) ==
    IF status \in Statuses THEN [st EXCEPT ![status] = @ + 1] ELSE st

\* lines 305-307: one loop iteration's update of severity_counts
CountSeverity(sev, severity) ==
    IF severity # "NONE" /\ severity \in CountedSeverities
    THEN [sev EXCEPT ![severity] = @ + 1] ELSE sev

RECURSIVE StatusCountsOf(_)
StatusCountsOf(cs) ==
    IF cs = <<>> THEN ZeroStatusCounts
    ELSE CountStatus(StatusCountsOf(SubSeq(cs, 1, Len(cs) - 1)), cs[Len(cs)].evidence_status)

RECURSIVE SeverityCountsOf(_)
SeverityCountsOf(cs) ==
    IF cs = <<>> THEN ZeroSeverityCounts
    ELSE CountSeverity(SeverityCountsOf(SubSeq(cs, 1, Len(cs) - 1)), cs[Len(cs)].severity)

\* mutant: an empty claim list scored 0
calculate_score_EmptyIsZero(cs) ==
    IF cs = <<>> THEN 0
    ELSE ScoreOf(Len(cs), StatusCountsOf(cs), SeverityCountsOf(cs))

\* MedicalReviewer.calculate_score on a claim list
calculate_score(cs) ==
    IF cs = <<>> THEN 100
    ELSE ScoreOf(Len(cs), StatusCountsOf(cs), SeverityCountsOf(cs))

\* ---------------------------------------------------------- SpecScore
ScoreInit ==
    /\ sc_pc = "loop"
    /\ total_claims = 0
    /\ status_counts = ZeroStatusCounts
    /\ severity_counts = ZeroSeverityCounts
    /\ no_severity = 0
    /\ final_score = -1

\* one iteration of `for claim in claims`
ScoreRead ==
    /\ sc_pc = "loop"
    /\ total_claims < MaxScoreLen
    /\ \E status \in Statuses \cup {UnknownStatus},
          severity \in Severities \cup {UnknownSeverity} :
         /\ status_counts' = CountStatus(status_counts, status)
         /\ severity_counts' = CountSeverity(severity_counts, severity)
         /\ no_severity' = no_severity + (IF severity = "NONE" THEN 1 ELSE 0)
    /\ total_claims' = total_claims + 1
    /\ UNCHANGED <<sc_pc, final_score>>
    /\ UNCHANGED <<rel_vars, analyze_vars, service_vars, validate_vars, order_vars, thread_vars, parse_vars>>

\* `if not claims: return 100`
ScoreEmpty ==
    /\ sc_pc = "loop"
    /\ total_claims = 0
    /\ sc_pc' = "returned"
    /\ final_score' = calculate_score(<<>>)
    /\ UNCHANGED <<total_claims, status_counts, severity_counts, no_severity>>
    /\ UNCHANGED <<rel_vars, analyze_vars, service_vars, validate_vars, order_vars, thread_vars, parse_vars>>

\* the loop is over: lines 310-327
ScoreReturn ==
    /\ sc_pc = "loop"
    /\ total_claims > 0
    /\ sc_pc' = "returned"
    /\ final_score' = ScoreOf(total_claims, status_counts, severity_counts)
    /\ UNCHANGED <<total_claims, status_counts, severity_counts, no_severity>>
    /\ UNCHANGED <<rel_vars, analyze_vars, service_vars, validate_vars, order_vars, thread_vars, parse_vars>>

\* ------------------------------------------------------------ SpecRel
YearValues ==
    {Absent, [kind |-> "text", val |-> <<>>]}
      \cup {[kind |-> "digits", val |-> y] : y \in (CurrentYear - YearSpan)..(CurrentYear + YearSpan)}

TitleValues == {Absent, PyNone} \cup {Str(t) : t \in TextsUpTo(MaxTitleWords)}
AbstractValues == {Absent} \cup {Str(t) : t \in TextsUpTo(MaxAbstractWords)}

NoArticle == [title |-> Absent, abstract |-> Absent, year |-> Absent]

RelInit ==
    /\ rel_pc = "call"
    /\ rel_query = <<>>
    /\ rel_article = NoArticle
    /\ rel_result = Value(0, 1)

RelScore ==
    /\ rel_pc = "call"
    /\ \E q \in TextsUpTo(MaxQueryWords), t \in TitleValues,
          a \in AbstractValues, y \in YearValues :
         LET art == [title |-> t, abstract |-> a, year |-> y]
         IN  /\ rel_query' = q
             /\ rel_article' = art
             /\ rel_result' = calculate_relevance_score(q, art)
    /\ rel_pc' = "returned"
    /\ UNCHANGED <<score_vars, analyze_vars, service_vars, validate_vars, order_vars, thread_vars, parse_vars>>

\* ------------------------------------------------ literature service
\* the query text the extraction step suggests; with one text every
\* lookup of a call shares one cache key, so a later entry's search is a
\* hit on what the first one stored
QueryA == <<"HbA1c", "reduction">>
PipelineQueries == {QueryA}

\* article records as _parse_pubmed_xml builds them (lines 104-143)
ArticleOld ==
    [pmid |-> Str(<<"111">>), title |-> Str(<<"reduction">>), authors |-> <<"Rao">>,
     journal |-> Str(<<"JAPI">>), year |-> [kind |-> "digits", val |-> CurrentYear - 8],
     abstract |-> Str(<<>>)]
ArticleRecent ==
    [pmid |-> Str(<<"222">>), title |-> Str(<<"hba1c", "reduction">>), authors |-> <<"Iyer", "Das">>,
     journal |-> Str(<<"IJMR">>), year |-> [kind |-> "digits", val |-> CurrentYear - 2],
     abstract |-> Str(<<"hba1c">>)]
\* an <ArticleTitle/> element without text: title_elem.text is None (line 112)
ArticleNoTitle ==
    [pmid |-> Str(<<"333">>), title |-> PyNone, authors |-> <<>>,
     journal |-> Str(<<>>), year |-> [kind |-> "text", val |-> <<>>],
     abstract |-> Str(<<"reduction">>)]
\* what a search may return: up to MaxResults of the two titled articles
\* in either order, or the text-less one alone
TitledArticles == {ArticleOld, ArticleRecent}
ArticleLists ==
    {l \in UNION {[1..k -> TitledArticles] : k \in 0..MaxResults} :
        \A i, j \in 1..Len(l) : i # j => l[i] # l[j]}
      \cup {<<ArticleNoTitle>>}

\* what the two HTTP calls of one _search_sync run do: the esearch call
\* fails (network, HTTP status), its body is not JSON, its body is JSON
\* of another shape (a list, "esearchresult" not an object); the efetch
\* call fails, its body is not well-formed XML; or both succeed
FailureKinds ==
    {"search_error", "search_not_json", "search_bad_shape", "fetch_error", "fetch_bad_xml"}
ExternalOutcomes ==
    {[kind |-> k, articles |-> <<>>] : k \in FailureKinds}
      \cup {[kind |-> "ok", articles |-> l] : l \in ArticleLists}

\* mutant: every failed external call makes _search_sync raise
SearchSyncRaisesOnFailure(outcome) == outcome.kind \in FailureKinds

\* line 65 is outside the try block of lines 57-63: .get on a body that
\* is not a dict of dicts raises AttributeError out of _search_sync
SearchSyncRaises(outcome) == outcome.kind = "search_bad_shape"

\* _search_sync's return value for an outcome of the external calls:
\* tuple() after an esearch failure (lines 61-63) or an empty idlist
\* (67-68), tuple([]) after an efetch failure (92-94) or an XML parse
\* error (145-146)
SearchSyncResult(outcome) ==
    IF outcome.kind = "ok" THEN outcome.articles ELSE <<>>

\* arguments analyze passes to search (line 221)
SearchMaxResults == 5
SearchYears == 10
SearchKey(query) == <<query, SearchMaxResults, SearchYears>>
SearchKeys == {SearchKey(q) : q \in PipelineQueries}

Miss == [hit |-> FALSE, articles |-> <<>>]
Hit(articles) == [hit |-> TRUE, articles |-> articles]

\* ----------------------------------------------------------- resolver
NoReference ==
    [present |-> FALSE, pmid |-> PyNone, title |-> PyNone, authors |-> <<>>,
     journal |-> PyNone, year |-> PyNone, confidence |-> Value(0, 1)]

\* dict.get(key): None when the key is missing
GetOrNone(entry) == Get(entry, PyNone)

\* lines 227-234: the reference built from best_article
Reference(query, best_article, confidence) ==
    [present |-> TRUE,
     pmid |-> GetOrNone(best_article.pmid),
     title |-> GetOrNone(best_article.title),
     authors |-> best_article.authors,
     journal |-> GetOrNone(best_article.journal),
     year |-> GetOrNone(best_article.year),
     confidence |-> confidence]

\* line 225: best_article = articles[0]
BestArticle(query, articles) == articles[1]

\* mutant: a substantiated claim drops straight to MINOR
ReducedSeverityToMinor(severity) ==
    IF severity \in {"CRITICAL", "MAJOR"} THEN "MINOR" ELSE severity

\* lines 236-239: reduce severity if evidence found
ReducedSeverity(severity) ==
    IF severity = "CRITICAL" THEN "MAJOR"
    ELSE IF severity = "MAJOR" THEN "MINOR"
    ELSE severity

\* lines 223-239: the claim after a search that returned articles
SubstantiatedClaim(claim, query, articles) ==
    LET best_article == BestArticle(query, articles)
    IN  [claim EXCEPT
           !.evidence_status = "SUBSTANTIATED_PUBMED",
           !.pubmed_reference =
               Reference(query, best_article, calculate_relevance_score(query, best_article)),
           !.severity = ReducedSeverity(claim.severity)]

\* mutant: the severity is set only when the claim had none
UnsubstantiatedClaimKeepsSeverity(claim) ==
    [claim EXCEPT !.evidence_status = "UNSUBSTANTIATED",
                  !.severity = IF claim.severity = "NONE" THEN "CRITICAL" ELSE claim.severity]

\* lines 240-243: the claim after a search that returned nothing
UnsubstantiatedClaim(claim) ==
    [claim EXCEPT !.evidence_status = "UNSUBSTANTIATED", !.severity = "CRITICAL"]

\* lines 211-215: index of the first claim with this id, 0 when none
FindClaim(cs, claim_id) ==
    IF \E i \in 1..Len(cs) : cs[i].id = claim_id
    THEN CHOOSE i \in 1..Len(cs) :
           /\ cs[i].id = claim_id
           /\ \A j \in 1..(i - 1) : cs[j].id # claim_id
    ELSE 0

\* mutant: the sibling agents' tolerance band, the extraction's score
\* kept when it is within 5 points of the computed one
RecalculatedScoreWithTolerance(extracted, cs) ==
    LET computed == calculate_score(cs)
    IN  IF extracted - computed > 5 \/ computed - extracted > 5 THEN computed ELSE extracted

\* line 143: the published score
RecalculatedScore(extracted, cs) == calculate_score(cs)

\* --------------------------------------------------------------- Spec
\* statuses and scores the extraction reply carries in this model: one
\* status flagged for lookup and one that is not (the resolver never reads
\* the status), every severity, and a score equal to or different from
\* the one recomputed
InputStatuses == {"NEEDS_PUBMED_CHECK", "SUBSTANTIATED_BACKUP"}
ExtractedScores == {65, 100}
ClaimIds == 1..MaxClaims
\* a claim_id the reply's claim list does not hold
UnknownClaimId == MaxClaims + 1

Number(n) == [kind |-> "int", val |-> n]
\* the reply's overall_score entry: missing, a text, in or out of 0..100
ScoreEntries == {Absent, Str(<<"high">>)} \cup {Number(n) : n \in ExtractedScores \cup {150}}

\* the fields of a claim the resolver never assigns
ValidClaimTypes ==
    {"EFFICACY_CLAIM", "SAFETY_CLAIM", "COMPARATIVE_CLAIM", "MECHANISM_CLAIM",
     "STATISTICAL_CLAIM", "DOSING_CLAIM", "POPULATION_CLAIM", "ONSET_DURATION_CLAIM"}
Identity(claim) ==
    [id |-> claim.id, claim_text |-> claim.claim_text, claim_type |-> claim.claim_type,
     location |-> claim.location]

NoClaim == [id |-> 0, claim_text |-> <<>>, claim_type |-> "NONE", location |-> 0,
            evidence_status |-> "NONE", severity |-> "NONE",
            pubmed_reference |-> NoReference]
NoStep == [op |-> "none", idx |-> 0, before |-> NoClaim, query |-> <<>>,
           outcome |-> "none", score_before |-> 0]

\* claim lists of the reply: the claim at position i carries id i, its
\* own text and page, and one of two claim types
InputClaims ==
    UNION {[1..k -> [evidence_status : InputStatuses, severity : Severities]] : k \in 0..MaxClaims}
MakeClaims(l) ==
    [i \in 1..Len(l) |->
        [id |-> i, claim_text |-> <<"claim", ToString(i)>>,
         claim_type |-> IF i % 2 = 1 THEN "EFFICACY_CLAIM" ELSE "SAFETY_CLAIM",
         location |-> i,
         evidence_status |-> l[i].evidence_status, severity |-> l[i].severity,
         pubmed_reference |-> NoReference]]

\* result["summary"]: the counts the reply states for its own claims
\* (prompt, line 74); nothing in analyze writes it afterwards. The error
\* reports carry {"total_claims": 0} alone (lines 152, 162).
SummaryStatuses ==
    {"SUBSTANTIATED_BACKUP", "SUBSTANTIATED_PUBMED", "NEEDS_PUBMED_CHECK", "UNSUBSTANTIATED",
     "CONTRADICTED"}
NoSummary == [keys |-> "none", total_claims |-> 0, counts |-> [st \in SummaryStatuses |-> 0]]
ErrorSummary == [NoSummary EXCEPT !.keys = "total_claims"]
\* a reply whose summary counts its claims correctly
SummaryOf(cs) ==
    [keys |-> "all", total_claims |-> Len(cs),
     counts |-> [st \in SummaryStatuses |-> StatusCountsOf(cs)[st]]]

\* a reply that parses to an object: its overall_score entry, whether
\* "claims" is a list, missing or null, and the list
ObjectReplies(inputs, scores) ==
    {[overall_score |-> e, claims |-> "list", list |-> MakeClaims(l),
      summary |-> SummaryOf(MakeClaims(l))] : e \in scores, l \in inputs}
      \cup {[overall_score |-> e, claims |-> k, list |-> <<>>, summary |-> SummaryOf(<<>>)] :
               e \in scores, k \in {"absent", "none"}}
Replies == ObjectReplies(InputClaims, ScoreEntries)

\* an element of data["claims"] as validate_response reads it: a JSON
\* object with optional keys, a number, or a text
NoElement == [kind |-> "none", id |-> Absent, claim_text |-> Absent, claim_type |-> Absent,
              evidence_status |-> Absent, severity |-> Absent]
ClaimElement(claim) ==
    [kind |-> "object", id |-> Number(claim.id), claim_text |-> Str(claim.claim_text),
     claim_type |-> Str(<<claim.claim_type>>),
     evidence_status |-> Str(<<claim.evidence_status>>),
     severity |-> IF claim.severity = "NONE" THEN PyNone ELSE Str(<<claim.severity>>)]

\* value in a list of strings (lines 247-258)
InList(entry, names) == entry.kind = "str" /\ Len(entry.val) = 1 /\ entry.val[1] \in names

\* lines 266-272, the asserts on one element: "ok", "False" (an assert
\* failed), or TypeError (`"id" in claim` on a number, line 266); a text
\* without the key names in it fails the first assert
ClaimCheck(claim) ==
    IF claim.kind = "number" THEN "TypeError"
    ELSE IF claim.kind = "string" THEN "False"
    ELSE IF claim.id.kind = "absent" THEN "False"
    ELSE IF claim.claim_text.kind = "absent" THEN "False"
    ELSE IF claim.claim_type.kind = "absent" THEN "False"
    ELSE IF ~InList(claim.claim_type, ValidClaimTypes) THEN "False"
    ELSE IF claim.evidence_status.kind = "absent" THEN "False"
    ELSE IF ~InList(claim.evidence_status, Statuses) THEN "False"
    ELSE IF ~(GetOrNone(claim.severity).kind = "none" \/ InList(claim.severity, CountedSeverities))
         THEN "False"
    ELSE "ok"

\* lines 261-265, up to the loop: "loop", "False", or TypeError (`in` on a
\* number, line 261; comparing a text or None with 0, line 262; iterating
\* a null claims value, line 265)
ValidateTop(data) ==
    IF data.kind = "number" THEN "TypeError"
    ELSE IF data.kind \in {"list", "string"} THEN "False"
    ELSE IF data.overall_score.kind = "absent" THEN "False"
    ELSE IF data.overall_score.kind # "int" THEN "TypeError"
    ELSE IF ~(0 <= data.overall_score.val /\ data.overall_score.val <= 100) THEN "False"
    ELSE IF data.claims = "absent" THEN "False"
    ELSE IF data.claims = "none" THEN "TypeError"
    ELSE "loop"

\* lines 245-277 on a reply object of the pipeline: "True", "False" (an
\* assertion failed and was caught), or the exception that leaves
\* validate_response, which catches only AssertionError
validate_response(data) ==
    LET top == ValidateTop([kind |-> "object", overall_score |-> data.overall_score,
                            claims |-> data.claims])
        failing == {i \in 1..Len(data.list) : ClaimCheck(ClaimElement(data.list[i])) # "ok"}
    IN  IF top # "loop" THEN top
        ELSE IF failing = {} THEN "True"
        ELSE ClaimCheck(ClaimElement(data.list[CHOOSE i \in failing : \A j \in failing : i <= j]))

\* mutant: a failed analysis returned as an empty report without an error field
ErrorReportWithoutError(message) ==
    /\ pc' = "done"
    /\ error' = "NONE"
    /\ overall_score' = 0
    /\ claims' = <<>>
    /\ present' = [score |-> TRUE, claims |-> "list"]
    /\ summary' = ErrorSummary

\* the report of the two except branches (lines 147-167)
ErrorReport(message) ==
    /\ pc' = "done"
    /\ error' = message
    /\ overall_score' = 0
    /\ claims' = <<>>
    /\ present' = [score |-> TRUE, claims |-> "list"]
    /\ summary' = ErrorSummary

AnalyzeInitOf(keys) ==
    /\ pc = "start"
    /\ claims = <<>>
    /\ overall_score = 0
    /\ present = [score |-> FALSE, claims |-> "absent"]
    /\ extraction = <<>>
    /\ error = "NONE"
    /\ processed = 0
    /\ cache = [k \in keys |-> Miss]
    /\ cancel_at = -1
    /\ last = NoStep
    /\ summary = NoSummary
AnalyzeInit == AnalyzeInitOf(SearchKeys)

\* lines 119-134: the reply is not JSON, json.loads raises JSONDecodeError
ExtractNotJson ==
    /\ pc = "start"
    /\ ErrorReport("JSON parsing failed")
    /\ last' = [NoStep EXCEPT !.op = "not_json"]
    /\ UNCHANGED <<extraction, processed, cache, cancel_at>>
    /\ UNCHANGED <<score_vars, rel_vars, service_vars, validate_vars, order_vars, thread_vars, parse_vars>>

\* lines 134-140: the reply is JSON but no object.  For a list
\* validate_response returns False and result.get (line 201) raises
\* AttributeError; for a number `in` raises TypeError inside
\* validate_response (line 261); both leave through `except Exception`
ExtractNotObject ==
    /\ pc = "start"
    /\ \E shape \in {"list", "number"} :
         /\ ErrorReport(IF shape = "list" THEN "AttributeError" ELSE "TypeError")
         /\ last' = [NoStep EXCEPT !.op = "not_object", !.outcome = shape]
    /\ UNCHANGED <<extraction, processed, cache, cancel_at>>
    /\ UNCHANGED <<score_vars, rel_vars, service_vars, validate_vars, order_vars, thread_vars, parse_vars>>

\* lines 134-137: the reply parses to an object and validate_response raises
ExtractValidateRaisesOf(replies) ==
    /\ pc = "start"
    /\ \E data \in replies :
         /\ validate_response(data) \notin {"True", "False"}
         /\ ErrorReport(validate_response(data))
         /\ last' = [NoStep EXCEPT !.op = "validate_raised",
                                   !.outcome = validate_response(data)]
    /\ UNCHANGED <<extraction, processed, cache, cancel_at>>
    /\ UNCHANGED <<score_vars, rel_vars, service_vars, validate_vars, order_vars, thread_vars, parse_vars>>
ExtractValidateRaises == ExtractValidateRaisesOf(Replies)

\* lines 134-140: the reply parses to an object; what validate_response
\* returns is not read, the resolver runs on the object as it is
ExtractOf(replies) ==
    /\ pc = "start"
    /\ \E data \in replies :
         /\ validate_response(data) \in {"True", "False"}
         /\ claims' = data.list
         /\ extraction' = [i \in 1..Len(data.list) |-> Identity(data.list[i])]
         /\ overall_score' = IF data.overall_score.kind = "int" THEN data.overall_score.val ELSE 0
         /\ present' = [score |-> data.overall_score.kind # "absent", claims |-> data.claims]
         /\ last' = [NoStep EXCEPT !.op = "extract", !.outcome = validate_response(data)]
         /\ summary' = data.summary
    /\ pc' = "resolve"
    /\ UNCHANGED <<error, processed, cache, cancel_at>>
    /\ UNCHANGED <<score_vars, rel_vars, service_vars, validate_vars, order_vars, thread_vars, parse_vars>>
Extract == ExtractOf(Replies)

\* lines 203-218: an entry without a query, or naming no claim: continue
SkipEntryOf(queries) ==
    /\ pc = "resolve"
    /\ processed < MaxQueries
    /\ \E claim_id \in ClaimIds \cup {UnknownClaimId}, query \in queries \cup {<<>>} :
         /\ query = <<>> \/ (present.claims # "none" /\ FindClaim(claims, claim_id) = 0)
         /\ last' = [NoStep EXCEPT !.op = "skip", !.query = query]
    /\ processed' = processed + 1
    /\ UNCHANGED <<pc, claims, overall_score, present, extraction, error, cache, cancel_at, summary>>
    /\ UNCHANGED <<score_vars, rel_vars, service_vars, validate_vars, order_vars, thread_vars, parse_vars>>
SkipEntry == SkipEntryOf(PipelineQueries)

\* lines 211-212: an entry with a query while "claims" is null: the loop
\* over result.get("claims", []) raises TypeError
FindClaimRaisesOf(queries) ==
    /\ pc = "resolve"
    /\ processed < MaxQueries
    /\ present.claims = "none"
    /\ \E query \in queries :
         /\ ErrorReport("TypeError")
         /\ last' = [NoStep EXCEPT !.op = "raised", !.query = query]
    /\ processed' = processed + 1
    /\ UNCHANGED <<extraction, cache, cancel_at>>
    /\ UNCHANGED <<score_vars, rel_vars, service_vars, validate_vars, order_vars, thread_vars, parse_vars>>
FindClaimRaises == FindClaimRaisesOf(PipelineQueries)

\* mutant: the resolved claim is taken out of the list and appended
UpdatedClaimsMovedLast(cs, idx, claim) ==
    Append([j \in 1..(Len(cs) - 1) |-> IF j < idx THEN cs[j] ELSE cs[j + 1]], claim)

\* the claim dict is assigned in place, the list is not touched
UpdatedClaims(cs, idx, claim) == [cs EXCEPT ![idx] = claim]

\* lines 223-243 for the claim at idx, given what search returned; a
\* calculate_relevance_score that raises leaves analyze through its
\* `except Exception` branch (lines 158-167)
Resolve(idx, query, articles, step) ==
    IF articles # <<>>
    THEN LET updated == SubstantiatedClaim(claims[idx], query, articles)
         IN  IF updated.pubmed_reference.confidence.raised # "no"
             THEN /\ ErrorReport(updated.pubmed_reference.confidence.raised)
                  /\ last' = [step EXCEPT !.op = "raised"]
             ELSE /\ claims' = UpdatedClaims(claims, idx, updated)
                  /\ last' = [step EXCEPT !.op = "found"]
                  /\ UNCHANGED <<pc, overall_score, present, error, summary>>
    ELSE /\ claims' = UpdatedClaims(claims, idx, UnsubstantiatedClaim(claims[idx]))
         /\ last' = [step EXCEPT !.op = "not_found"]
         /\ UNCHANGED <<pc, overall_score, present, error, summary>>

\* lines 203-243, the key is not cached: _search_sync runs its two HTTP
\* calls, lru_cache stores what it returns, the claim is updated; a
\* _search_sync that raises stores nothing and leaves analyze through
\* `except Exception`
LookupMissOf(queries, outcomes) ==
    /\ pc = "resolve"
    /\ processed < MaxQueries
    /\ \E claim_id \in ClaimIds, query \in queries, outcome \in outcomes :
         LET idx == FindClaim(claims, claim_id)
             key == SearchKey(query)
             articles == SearchSyncResult(outcome)
             step == [NoStep EXCEPT !.idx = idx, !.before = claims[idx], !.query = query,
                                    !.outcome = outcome.kind]
         IN  /\ idx # 0
             /\ ~cache[key].hit
             /\ IF SearchSyncRaises(outcome)
                THEN /\ ErrorReport("AttributeError")
                     /\ last' = [step EXCEPT !.op = "raised"]
                     /\ UNCHANGED cache
                ELSE /\ cache' = [cache EXCEPT ![key] = Hit(articles)]
                     /\ Resolve(idx, query, articles, step)
    /\ processed' = processed + 1
    /\ UNCHANGED <<extraction, cancel_at>>
    /\ UNCHANGED <<score_vars, rel_vars, service_vars, validate_vars, order_vars, thread_vars, parse_vars>>
LookupMiss == LookupMissOf(PipelineQueries, ExternalOutcomes)

\* lines 203-243, the key is cached: lru_cache returns the stored tuple
LookupHitOf(queries) ==
    /\ pc = "resolve"
    /\ processed < MaxQueries
    /\ \E claim_id \in ClaimIds, query \in queries :
         LET idx == FindClaim(claims, claim_id)
             key == SearchKey(query)
         IN  /\ idx # 0
             /\ cache[key].hit
             /\ Resolve(idx, query, cache[key].articles,
                        [NoStep EXCEPT !.idx = idx, !.before = claims[idx], !.query = query,
                                       !.outcome = "cached"])
    /\ processed' = processed + 1
    /\ UNCHANGED <<extraction, cache, cancel_at>>
    /\ UNCHANGED <<score_vars, rel_vars, service_vars, validate_vars, order_vars, thread_vars, parse_vars>>
LookupHit == LookupHitOf(PipelineQueries)

\* lines 143-145: the loop is over; the score is recomputed from
\* result.get("claims", []) and the object returned
Finish ==
    /\ pc = "resolve"
    /\ overall_score' = RecalculatedScore(overall_score, claims)
    /\ present' = [present EXCEPT !.score = TRUE]
    /\ pc' = "done"
    /\ last' = [NoStep EXCEPT !.op = "finish", !.score_before = overall_score]
    /\ UNCHANGED <<claims, extraction, error, processed, cache, cancel_at, summary>>
    /\ UNCHANGED <<score_vars, rel_vars, service_vars, validate_vars, order_vars, thread_vars, parse_vars>>

\* -------------------------------------------------------- SpecExample
\* one analyze call on the claims of section 8's scenario: every claim is
\* flagged NEEDS_PUBMED_CHECK with severity CRITICAL, the entries carry
\* the query of the scenario or a four-term one, and the service returns
\* articles about that trial
ExampleQuery == <<"dapagliflozin", "HbA1c", "reduction">>
ExampleQueryFour == <<"dapagliflozin", "HbA1c", "reduction", "placebo">>
ExampleQueries == {ExampleQuery, ExampleQueryFour}

\* title terms: three of ExampleQueryFour's four, all of ExampleQuery's three
ArticleTrial ==
    [pmid |-> Str(<<"444">>), title |-> Str(<<"dapagliflozin", "and", "hba1c", "reduction">>),
     authors |-> <<"Bailey">>, journal |-> Str(<<"Lancet">>),
     year |-> [kind |-> "digits", val |-> CurrentYear - 2],
     abstract |-> Str(<<"glycaemic", "control">>)]
ExampleArticles == {ArticleTrial, ArticleOld}
ExampleArticleLists ==
    {l \in UNION {[1..k -> ExampleArticles] : k \in 0..MaxResults} :
        \A i, j \in 1..Len(l) : i # j => l[i] # l[j]}
      \cup {<<ArticleNoTitle>>}
ExampleOutcomes ==
    {[kind |-> k, articles |-> <<>>] : k \in {"search_error", "search_bad_shape"}}
      \cup {[kind |-> "ok", articles |-> l] : l \in ExampleArticleLists}
ExampleKeys == {SearchKey(q) : q \in ExampleQueries}
ExampleInputs == UNION {[1..k -> [evidence_status : {"NEEDS_PUBMED_CHECK"}, severity : {"CRITICAL"}]] : k \in 1..MaxClaims}
ExampleReplies ==
    {[overall_score |-> Number(65), claims |-> "list", list |-> MakeClaims(l),
      summary |-> SummaryOf(MakeClaims(l))] : l \in ExampleInputs}

ExampleInit == AnalyzeInitOf(ExampleKeys)
ExampleExtract == ExtractOf(ExampleReplies)
ExampleSkipEntry == SkipEntryOf(ExampleQueries)
ExampleLookupMiss == LookupMissOf(ExampleQueries, ExampleOutcomes)
ExampleLookupHit == LookupHitOf(ExampleQueries)

\* the caller's deadline (asyncio.wait_for around analyze) passes while
\* the resolver loop runs: search (lines 25-37) awaits nothing, the
\* blocking requests.get calls keep the event loop, and no line of
\* analyze reads a deadline or a cancellation
DeadlinePasses ==
    /\ pc = "resolve"
    /\ cancel_at = -1
    /\ cancel_at' = processed
    /\ UNCHANGED <<pc, claims, overall_score, present, extraction, error, processed, cache, last, summary>>
    /\ UNCHANGED <<score_vars, rel_vars, service_vars, validate_vars, order_vars, thread_vars, parse_vars>>

\* -------------------------------------------------------- SpecService
\* PubMedService instances (each MedicalReviewer builds its own, line 92
\* of medical_reviewer.py) and the argument tuples they search with
Services == 1..MaxServices
SearchTuples == {SearchKey(QueryA), <<QueryA, 3, SearchYears>>}

\* @lru_cache decorates the method: the cache belongs to the function, is
\* shared by every instance, and its key is the whole argument list, self
\* included (PubMedService defines neither __eq__ nor __hash__)
CacheKey(svc, tuple) == <<svc, tuple>>

\* results a search stores in this specification
ServiceArticleLists == {<<>>, <<ArticleOld>>, <<ArticleRecent>>}
ServiceOutcomes ==
    {[kind |-> k, articles |-> <<>>] : k \in FailureKinds}
      \cup {[kind |-> "ok", articles |-> l] : l \in ServiceArticleLists}

\* HTTP calls one _search_sync run makes: the esearch call, and the efetch
\* call when esearch gave a non-empty idlist (lines 67-71)
ExternalCalls(outcome) ==
    IF outcome.kind \in {"search_error", "search_not_json", "search_bad_shape"} THEN 1
    ELSE IF outcome.kind = "ok" /\ outcome.articles = <<>> THEN 1
    ELSE 2

Position(entries, key) ==
    IF \E i \in 1..Len(entries) : entries[i].key = key
    THEN CHOOSE i \in 1..Len(entries) : entries[i].key = key
    ELSE 0
Without(entries, i) == [j \in 1..(Len(entries) - 1) |-> IF j < i THEN entries[j] ELSE entries[j + 1]]

\* mutant: a full cache drops its most recently used entry
InsertedDroppingNewest(entries, entry) ==
    IF Len(entries) < CacheCapacity THEN Append(entries, entry)
    ELSE Append(Without(entries, Len(entries)), entry)

\* lru_cache on a miss: the new entry is the most recently used one, and
\* the least recently used entry is dropped when the cache is full
Inserted(entries, entry) ==
    IF Len(entries) < CacheCapacity THEN Append(entries, entry)
    ELSE Append(Without(entries, 1), entry)

\* is the key held before the insertion and no longer after it
Dropped(before, after, key) == Position(before, key) # 0 /\ Position(after, key) = 0

\* article tuples the cache holds for an argument tuple, under any instance
HeldFor(entries, tuple) ==
    {entries[i].articles : i \in {j \in 1..Len(entries) : entries[j].key[2] = tuple}}

\* the record of a search: evicted_last_used says that the key its
\* insertion dropped is the key the search before it used, failed that
\* the entry it hit was stored by a run whose external call failed
NoSearch == [op |-> "none", svc |-> 0, tuple |-> <<>>, outcome |-> "none", result |-> <<>>,
             calls |-> 0, held |-> {}, evicted |-> FALSE, evicted_last_used |-> FALSE,
             failed |-> FALSE]

ServiceInit ==
    /\ lru = <<>>
    /\ svc_last = NoSearch

\* search (lines 25-37) on a key the cache holds: the stored tuple is
\* returned and becomes the most recently used entry
SearchHit ==
    /\ \E svc \in Services, tuple \in SearchTuples :
         LET i == Position(lru, CacheKey(svc, tuple))
         IN  /\ i # 0
             /\ lru' = Append(Without(lru, i), lru[i])
             /\ svc_last' = [NoSearch EXCEPT !.op = "hit", !.svc = svc, !.tuple = tuple,
                                             !.outcome = "cached", !.result = lru[i].articles,
                                             !.held = HeldFor(lru, tuple),
                                             !.failed = lru[i].failed]
    /\ UNCHANGED <<score_vars, rel_vars, analyze_vars, validate_vars, order_vars, thread_vars, parse_vars>>

\* search on a key the cache does not hold: _search_sync runs (lines
\* 39-72); what it returns is stored, what it raises is not
SearchMiss ==
    /\ \E svc \in Services, tuple \in SearchTuples, outcome \in ServiceOutcomes :
         LET step == [NoSearch EXCEPT !.svc = svc, !.tuple = tuple, !.outcome = outcome.kind,
                                      !.calls = ExternalCalls(outcome),
                                      !.held = HeldFor(lru, tuple)]
         IN  /\ Position(lru, CacheKey(svc, tuple)) = 0
             /\ IF SearchSyncRaises(outcome)
                THEN /\ svc_last' = [step EXCEPT !.op = "raised"]
                     /\ UNCHANGED lru
                ELSE /\ lru' = Inserted(lru, [key |-> CacheKey(svc, tuple),
                                              articles |-> SearchSyncResult(outcome),
                                              failed |-> outcome.kind \in FailureKinds])
                     /\ svc_last' = [step EXCEPT !.op = "miss",
                                                 !.result = SearchSyncResult(outcome),
                                                 !.evicted = (Len(lru) = CacheCapacity),
                                                 !.evicted_last_used =
                                                     Dropped(lru, lru',
                                                             CacheKey(svc_last.svc, svc_last.tuple))]
    /\ UNCHANGED <<score_vars, rel_vars, analyze_vars, validate_vars, order_vars, thread_vars, parse_vars>>

\* ------------------------------------------------------- SpecValidate
\* validate_response run as its checks and its loop over data["claims"],
\* whose elements are read one by one
UnknownClaimType == "MARKETING_CLAIM"
ValidatedScores == ScoreEntries \cup {PyNone, Number(0), Number(-1), Number(101)}
ValidatedValues ==
    {[kind |-> "object", overall_score |-> e, claims |-> k] :
        e \in ValidatedScores, k \in {"list", "absent", "none"}}
      \cup {[kind |-> k, overall_score |-> Absent, claims |-> "absent"] :
              k \in {"list", "number", "string"}}
ClaimElements ==
    [kind : {"object"},
     id : {Absent, Number(1)},
     claim_text : {Absent, Str(<<"claim">>)},
     claim_type : {Absent, PyNone} \cup {Str(<<t>>) : t \in ValidClaimTypes \cup {UnknownClaimType}},
     evidence_status : {Absent} \cup {Str(<<st>>) : st \in Statuses \cup {UnknownStatus}},
     severity : {Absent, PyNone} \cup {Str(<<sv>>) : sv \in CountedSeverities \cup {UnknownSeverity}}]
      \cup {[NoElement EXCEPT !.kind = k] : k \in {"number", "string"}}

ValidateInit ==
    /\ val_pc = "start"
    /\ val_top = [kind |-> "none", overall_score |-> Absent, claims |-> "absent"]
    /\ val_read = 0
    /\ val_claim = NoElement
    /\ val_result = "none"

\* lines 260-263: the checks before the loop
ValidateStart ==
    /\ val_pc = "start"
    /\ \E data \in ValidatedValues :
         /\ val_top' = data
         /\ val_pc' = IF ValidateTop(data) = "loop" THEN "loop" ELSE "returned"
         /\ val_result' = IF ValidateTop(data) = "loop" THEN "none" ELSE ValidateTop(data)
    /\ UNCHANGED <<val_read, val_claim>>
    /\ UNCHANGED <<score_vars, rel_vars, analyze_vars, service_vars, order_vars, thread_vars, parse_vars>>

\* lines 265-272: one element is read and checked
ValidateClaim ==
    /\ val_pc = "loop"
    /\ val_read < MaxValidated
    /\ \E claim \in ClaimElements :
         /\ val_claim' = claim
         /\ val_pc' = IF ClaimCheck(claim) = "ok" THEN "loop" ELSE "returned"
         /\ val_result' = IF ClaimCheck(claim) = "ok" THEN "none" ELSE ClaimCheck(claim)
    /\ val_read' = val_read + 1
    /\ UNCHANGED val_top
    /\ UNCHANGED <<score_vars, rel_vars, analyze_vars, service_vars, order_vars, thread_vars, parse_vars>>

\* line 274: the loop is over
ValidateReturn ==
    /\ val_pc = "loop"
    /\ val_pc' = "returned"
    /\ val_result' = "True"
    /\ UNCHANGED <<val_top, val_read, val_claim>>
    /\ UNCHANGED <<score_vars, rel_vars, analyze_vars, service_vars, order_vars, thread_vars, parse_vars>>

\* ---------------------------------------------------------- SpecOrder
\* _process_pubmed_queries on a reply whose claim ids are unique and whose
\* entries name each claim at most once, the entries taken in any order,
\* with a service that gives each query one answer (so a cached answer and
\* a fresh one are the same)
OrderQueries == {QueryA, ExampleQuery}
\* a claim's entry: none, one without a query, or one with a query
NoEntry == <<"none">>
OrderEntries == {NoEntry, <<>>} \cup OrderQueries
OrderOutcomes ==
    {[kind |-> "search_error", articles |-> <<>>],
     [kind |-> "ok", articles |-> <<ArticleRecent>>],
     [kind |-> "ok", articles |-> <<ArticleNoTitle>>]}
OrderInputs ==
    UNION {[claims : {MakeClaims(l) : l \in [1..k -> [evidence_status : {"NEEDS_PUBMED_CHECK"},
                                                      severity : Severities]]},
            entries : [1..k -> OrderEntries],
            service : [OrderQueries -> OrderOutcomes]] : k \in 0..MaxClaims}

OrderInit ==
    /\ ord_pc = "start"
    /\ ord_input = [claims |-> <<>>, entries |-> <<>>,
                    service |-> [q \in OrderQueries |-> [kind |-> "search_error", articles |-> <<>>]]]
    /\ ord_claims = <<>>
    /\ ord_pending = {}
    /\ ord_error = "NONE"
    /\ ord_score = 0

\* lines 134-140: the reply, and the entries of pubmed_queries_needed
OrderExtract ==
    /\ ord_pc = "start"
    /\ \E input \in OrderInputs :
         /\ ord_input' = input
         /\ ord_claims' = input.claims
         /\ ord_pending' = {i \in 1..Len(input.claims) : input.entries[i] # NoEntry}
    /\ ord_pc' = "resolve"
    /\ UNCHANGED <<ord_error, ord_score>>
    /\ UNCHANGED <<score_vars, rel_vars, analyze_vars, service_vars, validate_vars, thread_vars, parse_vars>>

\* mutant: after a search that found nothing the resolver gives up on
\* every claim still flagged
AppliedEntryGivesUp(cs, idx, query, articles) ==
    IF articles # <<>>
    THEN UpdatedClaims(cs, idx, SubstantiatedClaim(cs[idx], query, articles))
    ELSE [i \in 1..Len(cs) |->
            IF i = idx \/ cs[i].evidence_status = "NEEDS_PUBMED_CHECK"
            THEN UnsubstantiatedClaim(cs[i]) ELSE cs[i]]

\* lines 223-243: the claim list after the entry of the claim at idx
AppliedEntry(cs, idx, query, articles) ==
    IF articles # <<>>
    THEN UpdatedClaims(cs, idx, SubstantiatedClaim(cs[idx], query, articles))
    ELSE UpdatedClaims(cs, idx, UnsubstantiatedClaim(cs[idx]))

\* does the entry's lookup raise (search, or calculate_relevance_score)
EntryRaises(claim, query, outcome) ==
    \/ SearchSyncRaises(outcome)
    \/ /\ SearchSyncResult(outcome) # <<>>
       /\ SubstantiatedClaim(claim, query, SearchSyncResult(outcome)).pubmed_reference.confidence.raised # "no"

\* lines 203-243: one entry of the list is processed
OrderProcess ==
    /\ ord_pc = "resolve"
    /\ \E id \in ord_pending :
         LET query == ord_input.entries[id]
             idx == FindClaim(ord_claims, id)
         IN  /\ ord_pending' = ord_pending \ {id}
             /\ IF query = <<>> \/ idx = 0
                THEN UNCHANGED <<ord_pc, ord_claims, ord_error, ord_score>>
                ELSE IF EntryRaises(ord_claims[idx], query, ord_input.service[query])
                THEN /\ ord_pc' = "done"
                     /\ ord_error' = "AttributeError"
                     /\ ord_claims' = <<>>
                     /\ ord_score' = 0
                ELSE /\ ord_claims' = AppliedEntry(ord_claims, idx, query,
                                                   SearchSyncResult(ord_input.service[query]))
                     /\ UNCHANGED <<ord_pc, ord_error, ord_score>>
    /\ UNCHANGED ord_input
    /\ UNCHANGED <<score_vars, rel_vars, analyze_vars, service_vars, validate_vars, thread_vars, parse_vars>>

\* lines 143-145: every entry was processed
OrderFinish ==
    /\ ord_pc = "resolve"
    /\ ord_pending = {}
    /\ ord_score' = calculate_score(ord_claims)
    /\ ord_pc' = "done"
    /\ UNCHANGED <<ord_input, ord_claims, ord_pending, ord_error>>
    /\ UNCHANGED <<score_vars, rel_vars, analyze_vars, service_vars, validate_vars, thread_vars, parse_vars>>

\* -------------------------------------------------------- SpecThreads
\* threads that call search on one PubMedService, one search each. The
\* lru_cache wrapper looks the key up, calls _search_sync when the key is
\* missing and stores the result afterwards: the call is made outside the
\* cache's lock, so a second thread can look the same key up in between.
Threads == 1..MaxThreads

ThreadInit ==
    /\ thr_pc = [t \in Threads |-> "idle"]
    /\ thr_tuple = [t \in Threads |-> <<>>]
    /\ thr_result = [t \in Threads |-> <<>>]
    /\ thr_cache = [tuple \in SearchTuples |-> Miss]
    /\ thr_calls = [tuple \in SearchTuples |-> 0]

\* lines 37-39: search calls the wrapper, which looks the key up
ThreadLookup ==
    /\ \E t \in Threads, tuple \in SearchTuples :
         /\ thr_pc[t] = "idle"
         /\ thr_tuple' = [thr_tuple EXCEPT ![t] = tuple]
         /\ IF thr_cache[tuple].hit
            THEN /\ thr_pc' = [thr_pc EXCEPT ![t] = "returned"]
                 /\ thr_result' = [thr_result EXCEPT ![t] = thr_cache[tuple].articles]
            ELSE /\ thr_pc' = [thr_pc EXCEPT ![t] = "running"]
                 /\ UNCHANGED thr_result
    /\ UNCHANGED <<thr_cache, thr_calls>>
    /\ UNCHANGED <<score_vars, rel_vars, analyze_vars, service_vars, validate_vars, order_vars, parse_vars>>

\* lines 40-72: _search_sync runs for a thread whose lookup missed; the
\* wrapper stores what it returns unless the key was stored meanwhile,
\* and returns this run's own result in both cases
ThreadSearchSync ==
    /\ \E t \in Threads, outcome \in ServiceOutcomes :
         LET tuple == thr_tuple[t]
         IN  /\ thr_pc[t] = "running"
             /\ thr_calls' = [thr_calls EXCEPT ![tuple] = @ + 1]
             /\ IF SearchSyncRaises(outcome)
                THEN /\ thr_pc' = [thr_pc EXCEPT ![t] = "raised"]
                     /\ UNCHANGED <<thr_result, thr_cache>>
                ELSE /\ thr_pc' = [thr_pc EXCEPT ![t] = "returned"]
                     /\ thr_result' = [thr_result EXCEPT ![t] = SearchSyncResult(outcome)]
                     /\ thr_cache' = IF thr_cache[tuple].hit THEN thr_cache
                                     ELSE [thr_cache EXCEPT ![tuple] = Hit(SearchSyncResult(outcome))]
    /\ UNCHANGED thr_tuple
    /\ UNCHANGED <<score_vars, rel_vars, analyze_vars, service_vars, validate_vars, order_vars, parse_vars>>

\* ---------------------------------------------------------- SpecParse
\* _parse_pubmed_xml on one PubmedArticle element, and the relevance score
\* of the record it builds. A child element is Absent (find returns None),
\* PyNone (found, .text is None: <ArticleTitle/>) or Str (found with text).
KeptAuthors == 5
ElementValues(texts) == {Absent, PyNone} \cup {Str(t) : t \in texts}
\* an Author element: without LastName, with a LastName with or without
\* text, and with a ForeName as well
AuthorKinds == {"no_last", "last", "last_textless", "fore_last"}
PubmedArticles ==
    [pmid : ElementValues({<<"222">>}),
     title : ElementValues({<<"hba1c", "reduction">>}),
     journal : ElementValues({<<"IJMR">>}),
     year : {Absent, PyNone, [kind |-> "digits", val |-> CurrentYear - 2]},
     medline : {Absent, PyNone, [kind |-> "digits", val |-> CurrentYear - 8]},
     abstract : {<<>>, <<PyNone>>, <<Str(<<"hba1c">>), PyNone>>},
     author : AuthorKinds,
     authors : 0..MaxAuthors]

\* elem.text if elem is not None else "" (lines 108, 112, 128)
TextOrEmpty(elem) == IF elem.kind = "absent" THEN Str(<<>>) ELSE elem

\* lines 131-134: Year, else MedlineDate; the first four characters of its
\* text, the current year when there is no element or no text
ParsedYear(elem) ==
    LET year_elem == IF elem.year.kind # "absent" THEN elem.year ELSE elem.medline
    IN  IF year_elem.kind \in {"absent", "none"}
        THEN [kind |-> "digits", val |-> CurrentYear]
        ELSE year_elem

\* lines 117-123: the name appended for an Author element with a LastName
AuthorName(kind) ==
    IF kind = "last" THEN Str(<<"Iyer">>)
    ELSE IF kind = "last_textless" THEN PyNone
    ELSE Str(<<"R", "Iyer">>)

\* lines 115-124: authors[:5]
ParsedAuthors(elem) ==
    IF elem.author = "no_last" THEN <<>>
    ELSE [i \in 1..Min(elem.authors, KeptAuthors) |-> AuthorName(elem.author)]

RECURSIVE JoinedTexts(_)
\* lines 137-141: " ".join of the AbstractText texts that are not empty
JoinedTexts(parts) ==
    IF parts = <<>> THEN <<>>
    ELSE IF Head(parts).kind = "str" THEN Head(parts).val \o JoinedTexts(Tail(parts))
    ELSE JoinedTexts(Tail(parts))

\* lines 104-143: the record of one PubmedArticle element
ParsedArticle(elem) ==
    [pmid |-> TextOrEmpty(elem.pmid),
     title |-> TextOrEmpty(elem.title),
     authors |-> ParsedAuthors(elem),
     journal |-> TextOrEmpty(elem.journal),
     year |-> ParsedYear(elem),
     abstract |-> Str(JoinedTexts(elem.abstract))]

NoElementRead ==
    [pmid |-> Absent, title |-> Absent, journal |-> Absent, year |-> Absent, medline |-> Absent,
     abstract |-> <<>>, author |-> "no_last", authors |-> 0]

ParseInit ==
    /\ par_pc = "start"
    /\ par_elem = NoElementRead
    /\ par_article = ParsedArticle(NoElementRead)
    /\ par_result = Value(0, 1)

\* lines 103-143: one iteration of the loop over the PubmedArticle elements
ParseArticle ==
    /\ par_pc = "start"
    /\ \E elem \in PubmedArticles :
         /\ par_elem' = elem
         /\ par_article' = ParsedArticle(elem)
    /\ par_pc' = "parsed"
    /\ UNCHANGED par_result
    /\ UNCHANGED <<score_vars, rel_vars, analyze_vars, service_vars, validate_vars, order_vars, thread_vars>>

\* medical_reviewer.py line 232: the record is scored against the query
ParseScore ==
    /\ par_pc = "parsed"
    /\ par_result' = calculate_relevance_score(QueryA, par_article)
    /\ par_pc' = "scored"
    /\ UNCHANGED <<par_elem, par_article>>
    /\ UNCHANGED <<score_vars, rel_vars, analyze_vars, service_vars, validate_vars, order_vars, thread_vars>>

Init == ScoreInit /\ RelInit /\ AnalyzeInit /\ ServiceInit /\ ValidateInit /\ OrderInit /\ ThreadInit /\ ParseInit

Next ==
    \/ ExtractNotJson \/ ExtractNotObject \/ ExtractValidateRaises \/ Extract
    \/ SkipEntry \/ FindClaimRaises \/ LookupMiss \/ LookupHit \/ Finish
Spec == Init /\ [][Next]_vars

ScoreNext == ScoreRead \/ ScoreEmpty \/ ScoreReturn
SpecScore == Init /\ [][ScoreNext]_vars

RelNext == RelScore
SpecRel == Init /\ [][RelNext]_vars

ServiceNext == SearchHit \/ SearchMiss
SpecService == Init /\ [][ServiceNext]_vars

ValidateNext == ValidateStart \/ ValidateClaim \/ ValidateReturn
SpecValidate == Init /\ [][ValidateNext]_vars

ParseNext == ParseArticle \/ ParseScore
SpecParse == Init /\ [][ParseNext]_vars

ThreadNext == ThreadLookup \/ ThreadSearchSync
SpecThreads == Init /\ [][ThreadNext]_vars

OrderNext == OrderExtract \/ OrderProcess \/ OrderFinish
SpecOrder == Init /\ [][OrderNext]_vars

ExampleNext ==
    \/ ExampleExtract \/ ExampleSkipEntry \/ ExampleLookupMiss \/ ExampleLookupHit
    \/ DeadlinePasses \/ Finish
InitExample == ScoreInit /\ RelInit /\ ExampleInit /\ ServiceInit /\ ValidateInit /\ OrderInit /\ ThreadInit /\ ParseInit
SpecExample == InitExample /\ [][ExampleNext]_vars
\* ======================================================== properties
\* the ordered scale CRITICAL -> MAJOR -> MINOR -> none, one step down
StepDown(severity) ==
    IF severity = "CRITICAL" THEN "MAJOR"
    ELSE IF severity = "MAJOR" THEN "MINOR"
    ELSE "NONE"

Resolved == last.op \in {"found", "not_found"}

\* C1: when the search for a claim's query returns at least one article,
\* the claim's severity is lowered by exactly one step: CRITICAL to MAJOR,
\* MAJOR to MINOR, MINOR to none.  (Fails: a MINOR claim stays MINOR.)
C1_SeverityOneStepDown ==
    last.op = "found" => claims[last.idx].severity = StepDown(last.before.severity)

\* C2: when the search for a NEEDS_PUBMED_CHECK claim's query returns no
\* article, the claim ends UNSUBSTANTIATED with severity CRITICAL, whatever
\* its severity was.
C2_NotFoundIsUnsubstantiatedCritical ==
    (last.op = "not_found" /\ last.before.evidence_status = "NEEDS_PUBMED_CHECK")
      => /\ claims[last.idx].evidence_status = "UNSUBSTANTIATED"
         /\ claims[last.idx].severity = "CRITICAL"

C2_Witness ==
    /\ last.op = "not_found"
    /\ last.before.evidence_status = "NEEDS_PUBMED_CHECK"
    /\ last.before.severity = "MINOR"
    /\ claims[last.idx].severity = "CRITICAL"

\* C3: when the search returns several articles the claim becomes
\* SUBSTANTIATED_PUBMED and its pubmed_reference is the article of highest
\* relevance among those returned, with that article's relevance score as
\* confidence.  (Fails: the first article returned is attached.)
C3_HighestRelevanceAttached ==
    last.op = "found" =>
      LET articles == cache[SearchKey(last.query)].articles
          ref == claims[last.idx].pubmed_reference
      IN  /\ claims[last.idx].evidence_status = "SUBSTANTIATED_PUBMED"
          /\ \E i \in 1..Len(articles) :
               /\ ref.pmid = articles[i].pmid
               /\ ref.confidence = calculate_relevance_score(last.query, articles[i])
               /\ \A j \in 1..Len(articles) :
                    calculate_relevance_score(last.query, articles[j]).num
                      <= calculate_relevance_score(last.query, articles[i]).num

\* C4: the resolver changes no field of a claim whose evidence_status is
\* not NEEDS_PUBMED_CHECK, even when an entry of pubmed_queries_needed
\* names it.  (Fails: the status is never read.)
C4_UnflaggedClaimUnchanged ==
    (Resolved /\ last.before.evidence_status # "NEEDS_PUBMED_CHECK")
      => claims[last.idx] = last.before

\* C5: in every report returned without an error field, overall_score is
\* calculate_score of the returned claim list, whatever score the
\* extraction reply carried.
C5_ScoreRecomputed ==
    (pc = "done" /\ error = "NONE") => overall_score = calculate_score(claims)

\* the reply's score was within 5 points of the computed one, and replaced
C5_Witness ==
    /\ pc = "done"
    /\ error = "NONE"
    /\ claims # <<>>
    /\ last.score_before # overall_score
    /\ last.score_before - overall_score \in -5..5

\* the example of section 8: 5 backup-substantiated, 2 partial, one
\* CRITICAL unsubstantiated and two MAJOR unresolved claims
ExampleClaim(status, severity) ==
    [NoClaim EXCEPT !.evidence_status = status, !.severity = severity]
ExampleClaims ==
    [i \in 1..10 |->
        IF i <= 5 THEN ExampleClaim("SUBSTANTIATED_BACKUP", "NONE")
        ELSE IF i <= 7 THEN ExampleClaim("PARTIALLY_SUBSTANTIATED", "NONE")
        ELSE IF i = 8 THEN ExampleClaim("UNSUBSTANTIATED", "CRITICAL")
        ELSE ExampleClaim("NEEDS_PUBMED_CHECK", "MAJOR")]

\* clamp(base - deductions, 0, 100) times total_claims, from the counts
ClaimedNumerator ==
    LET substantiated == status_counts["SUBSTANTIATED_BACKUP"] + status_counts["SUBSTANTIATED_PUBMED"]
        partially == status_counts["PARTIALLY_SUBSTANTIATED"]
        deductions == 15 * severity_counts["CRITICAL"] + 8 * severity_counts["MAJOR"]
                        + 3 * severity_counts["MINOR"]
        raw == (100 * substantiated + 50 * partially) - deductions * total_claims
    IN  IF raw < 0 THEN 0 ELSE IF raw > 100 * total_claims THEN 100 * total_claims ELSE raw

Distance(a, b) == IF a >= b THEN a - b ELSE b - a

\* C6: for a non-empty claim list calculate_score returns an integer in
\* 0..100 nearest to clamp(base - deductions, 0, 100), with base =
\* (substantiated + 0.5 * partial) / total * 100 and deductions =
\* 15 * CRITICAL + 8 * MAJOR + 3 * MINOR; the example list scores 29.
C6_ScoreFormula ==
    /\ calculate_score(ExampleClaims) = 29
    /\ (sc_pc = "returned" /\ total_claims > 0)
         => /\ final_score \in 0..100
            /\ 2 * Distance(final_score * total_claims, ClaimedNumerator) <= total_claims

\* a rounding tie: 12.5 is returned as 12
C6_Witness ==
    /\ sc_pc = "returned"
    /\ total_claims = 4
    /\ ClaimedNumerator = 50
    /\ final_score = 12

\* C7 as stated: overall_score is 100 whenever the final claim list is
\* empty.  (Fails: an error report has an empty claim list and score 0.)
C7_EmptyListScores100_AsStated ==
    /\ calculate_score(<<>>) = 100
    /\ (pc = "done" /\ claims = <<>>) => overall_score = 100

\* C7, amended: calculate_score of the empty list is 100, and a report
\* without an error field whose claim list is empty has overall_score 100.
C7_EmptyListScores100 ==
    /\ calculate_score(<<>>) = 100
    /\ (pc = "done" /\ error = "NONE" /\ claims = <<>>) => overall_score = 100

C7_Witness ==
    /\ pc = "done"
    /\ error = "NONE"
    /\ claims = <<>>
    /\ last.score_before = 65
    /\ overall_score = 100

\* C8: giving a CRITICAL, MAJOR or MINOR severity to a claim that had
\* none, every status and the other claims unchanged, never raises the
\* score calculate_score returns.
C8_ScoreMonotoneInSeverity ==
    (sc_pc = "returned" /\ no_severity > 0) =>
      \A k \in CountedSeverities :
        ScoreOf(total_claims, status_counts, [severity_counts EXCEPT ![k] = @ + 1])
          <= final_score

\* one more MINOR finding strictly lowers the score
C8_Witness ==
    /\ sc_pc = "returned"
    /\ no_severity > 0
    /\ final_score > 0
    /\ ScoreOf(total_claims, status_counts, [severity_counts EXCEPT !["MINOR"] = @ + 1])
         < final_score

\* C9: calculate_relevance_score returns a value in [0, 1] for every query
\* and every article record, without raising.  (Fails: a title that is
\* None raises AttributeError.)
C9_RelevanceInUnitInterval ==
    rel_pc = "returned" =>
      /\ rel_result.raised = "no"
      /\ 0 <= rel_result.num
      /\ rel_result.num <= rel_result.den

\* C10: for a non-empty query the score is
\* min(1, 0.6 * |Q n T| / |Q| + 0.4 * |Q n A| / |Q| + boost), with
\* boost = 0.02 * (5 - age) when age < 5 and 0 otherwise (Q, T, A the
\* lowercase term sets of query, title and abstract).
C10_RelevanceFormula ==
    (rel_pc = "returned" /\ rel_query # <<>> /\ rel_article.title.kind # "none") =>
      LET Q == TermSet(rel_query)
          T == IF rel_article.title.kind = "str" THEN TermSet(rel_article.title.val) ELSE {}
          A == IF rel_article.abstract.kind = "str" THEN TermSet(rel_article.abstract.val) ELSE {}
          age == CurrentYear - PubYear(rel_article)
          boost == IF age < 5 THEN 2 * (5 - age) ELSE 0
          n == Cardinality(Q)
          sum == 60 * Cardinality(Q \cap T) + 40 * Cardinality(Q \cap A) + boost * n
      IN  /\ rel_result.raised = "no"
          /\ rel_result.den = 100 * n
          /\ rel_result.num = IF sum > 100 * n THEN 100 * n ELSE sum

\* one of two query terms in the title, two years old: 0.30 + 0.06
C10_Witness ==
    /\ rel_pc = "returned"
    /\ rel_query = <<"HbA1c", "reduction">>
    /\ rel_article.title = Str(<<"hba1c">>)
    /\ rel_article.year = [kind |-> "digits", val |-> CurrentYear - 2]
    /\ rel_result = Value(72, 200)

\* the scenario's lookup: a claim flagged NEEDS_PUBMED_CHECK with severity
\* CRITICAL, one article returned, published two years ago, `matched` of
\* the query's terms in its title and none in its abstract
ScenarioLookup(query, matched) ==
    /\ last.op = "found"
    /\ last.query = query
    /\ last.before.evidence_status = "NEEDS_PUBMED_CHECK"
    /\ last.before.severity = "CRITICAL"
    /\ LET articles == cache[SearchKey(query)].articles
       IN  /\ Len(articles) = 1
           /\ articles[1].title.kind = "str"
           /\ articles[1].abstract.kind = "str"
           /\ PubYear(articles[1]) = CurrentYear - 2
           /\ Cardinality(TermSet(query) \cap TermSet(articles[1].title.val)) = matched
           /\ TermSet(query) \cap TermSet(articles[1].abstract.val) = {}

ScenarioResult(num, den) ==
    /\ claims[last.idx].evidence_status = "SUBSTANTIATED_PUBMED"
    /\ claims[last.idx].severity = "MAJOR"
    /\ claims[last.idx].pubmed_reference.confidence.raised = "no"
    /\ claims[last.idx].pubmed_reference.confidence.num * den
         = num * claims[last.idx].pubmed_reference.confidence.den

\* C11 as stated: the query "dapagliflozin HbA1c reduction" has four terms,
\* and the flagged CRITICAL claim resolved with it against one article,
\* two years old, three query terms in the title and none in the abstract,
\* ends SUBSTANTIATED_PUBMED, MAJOR, with confidence 0.51.  (Fails: the
\* query has three terms; the confidence is 0.6 * 3/3 + 0.06 = 0.66.)
C11_EndToEnd_AsStated ==
    ScenarioLookup(ExampleQuery, 3) =>
      /\ Cardinality(TermSet(ExampleQuery)) = 4
      /\ ScenarioResult(51, 100)

\* C11, amended: with a query of four terms, three of them in the title,
\* the claim ends SUBSTANTIATED_PUBMED, MAJOR, with confidence
\* 0.6 * 0.75 + 0.4 * 0 + 0.02 * 3 = 0.51; with the three-term query
\* "dapagliflozin HbA1c reduction" and all three in the title, 0.66.
C11_EndToEnd ==
    /\ Cardinality(TermSet(ExampleQueryFour)) = 4
    /\ ScenarioLookup(ExampleQueryFour, 3) => ScenarioResult(51, 100)
    /\ ScenarioLookup(ExampleQuery, 3) => ScenarioResult(66, 100)

C11_Witness ==
    /\ ScenarioLookup(ExampleQueryFour, 3)
    /\ claims[last.idx].pubmed_reference.confidence = Value(204, 400)
    /\ claims[last.idx].pubmed_reference.pmid = ArticleTrial.pmid

\* C12: a search whose (query, max_results, years) tuple was searched
\* before, the earlier result not evicted since, makes no external call
\* and returns the list the earlier search returned, whichever report or
\* reviewer either search came from.  (Fails: the cache key holds the
\* PubMedService instance too, and every MedicalReviewer builds its own.)
C12_CacheIdempotence ==
    (svc_last.op # "none" /\ svc_last.held # {})
      => /\ svc_last.calls = 0
         /\ svc_last.held = {svc_last.result}

\* C13: a search whose id search or record fetch fails (network error,
\* HTTP error status, a body that is not JSON or not the expected JSON
\* structure, malformed XML) returns an empty sequence and does not raise.
\* (Fails: a JSON body of another shape raises AttributeError at line 65.)
C13_SearchFailsOpen ==
    svc_last.outcome \in FailureKinds
      => /\ svc_last.op = "miss"
         /\ svc_last.result = <<>>

\* C14: when the literature service fails during a claim's lookup (network
\* error, HTTP error, a reply that cannot be read), analyze does not
\* abort: the claim is UNSUBSTANTIATED with severity CRITICAL, the report
\* has no error field and the loop goes on to the remaining entries.
\* (Fails: an id-search body of an unexpected JSON shape makes search
\* raise, C13, and analyze returns its error report.)
C14_ServiceFailureDoesNotAbort ==
    (last.op \in {"found", "not_found", "raised"} /\ last.outcome \in FailureKinds)
      => /\ error = "NONE"
         /\ pc = "resolve"
         /\ claims # <<>>
         /\ claims[last.idx].evidence_status = "UNSUBSTANTIATED"
         /\ claims[last.idx].severity = "CRITICAL"

\* C15: every value analyze returns is a well-formed report: it holds an
\* integer overall_score in 0..100 and a claims list, for every extraction
\* reply and every outcome of the literature service.  (Fails: a reply
\* object without a claims field is returned without one.)
C15_ReportWellFormed ==
    pc = "done"
      => /\ present.score
         /\ overall_score \in 0..100
         /\ present.claims = "list"

\* C16: a reply that is not JSON gives an error report, overall_score 0,
\* an empty claims list and an error message, without any literature
\* lookup; and a report with an empty claims list and no error field is
\* returned only by an analysis that ran to its end.
C16_NotJsonIsExplicitError ==
    /\ last.op = "not_json"
         => /\ pc = "done"
            /\ error # "NONE"
            /\ overall_score = 0
            /\ present.claims = "list" /\ claims = <<>>
            /\ processed = 0
            /\ \A k \in DOMAIN cache : ~cache[k].hit
    /\ (pc = "done" /\ error = "NONE" /\ present.claims = "list" /\ claims = <<>>)
         => last.op = "finish"

C16_Witness ==
    /\ last.op = "not_json"
    /\ pc = "done"
    /\ error = "JSON parsing failed"
    /\ claims = <<>>
    /\ overall_score = 0

\* C17: a parsed reply that validate_response does not accept still goes
\* through the resolver and the aggregator; the validation failure alone
\* never makes the result an error report.  (Fails: an overall_score that
\* is no number, or a null claims value, makes validate_response raise
\* TypeError, C22, and analyze returns its error report.)
C17_ValidationFailureIsNotAnError ==
    (last.op \in {"extract", "validate_raised"} /\ last.outcome # "True")
      => /\ pc = "resolve"
         /\ error = "NONE"

\* C18: within one analyze call a claim the resolver has resolved to
\* SUBSTANTIATED_PUBMED or UNSUBSTANTIATED is not changed by a later entry
\* with its id, and a CRITICAL claim never reaches MINOR.  (Fails: every
\* entry with a query is looked up and applied.)
C18_ResolvedAtMostOnce ==
    /\ (Resolved /\ last.before.evidence_status \in {"SUBSTANTIATED_PUBMED", "UNSUBSTANTIATED"})
         => claims[last.idx] = last.before
    /\ \A i \in 1..Len(claims) : claims[i].severity # "MINOR"

\* C19: while the resolver runs and in the report analyze returns from it,
\* the claim list holds the claims of the extraction reply in their order:
\* same id, claim_text, claim_type and location at each position, none
\* added, removed or moved, in whatever order the entries name the claims.
C19_ClaimOrderPreserved ==
    (pc \in {"resolve", "done"} /\ error = "NONE")
      => /\ Len(claims) = Len(extraction)
         /\ \A i \in 1..Len(claims) : Identity(claims[i]) = extraction[i]

\* the second claim was resolved, the first was not
C19_Witness ==
    /\ pc = "done"
    /\ error = "NONE"
    /\ Len(claims) >= 2
    /\ claims[1].evidence_status = "NEEDS_PUBMED_CHECK"
    /\ claims[2].evidence_status = "SUBSTANTIATED_PUBMED"
    /\ claims[1].id = 1 /\ claims[2].id = 2

\* C20: once the caller's deadline has passed (or the review was
\* cancelled) during the resolver loop no further lookup is made, the
\* claims not yet looked up keep NEEDS_PUBMED_CHECK, and a report is
\* returned.  (Fails: nothing in analyze reads a deadline or yields to the
\* event loop; every remaining lookup is made and applied.)
C20_DeadlineAbandonsLookups ==
    (cancel_at >= 0 /\ last.op \in {"found", "not_found", "raised"})
      => processed <= cancel_at

\* what C21 asks of the value and of one claim
TopMeetsContract(data) ==
    /\ data.kind = "object"
    /\ data.overall_score.kind = "int"
    /\ data.overall_score.val \in 0..100
    /\ data.claims # "absent"
ClaimMeetsContract(claim) ==
    /\ claim.kind = "object"
    /\ claim.id.kind # "absent"
    /\ claim.claim_text.kind # "absent"
    /\ claim.claim_type \in {Str(<<t>>) : t \in ValidClaimTypes}
    /\ claim.evidence_status \in {Str(<<st>>) : st \in Statuses}
    /\ claim.severity \in {Absent, PyNone} \cup {Str(<<sv>>) : sv \in CountedSeverities}

\* C21: validate_response returns True when overall_score is present and
\* in 0..100, claims is present and every claim has an id, a claim_text,
\* one of the 8 claim types, one of the 7 statuses and a severity that is
\* CRITICAL, MAJOR, MINOR or none, and returns False in every other case.
\* (Fails: in some of the other cases it raises TypeError, C22.)
C21_ValidateContract ==
    /\ Cardinality(ValidClaimTypes) = 8 /\ Cardinality(Statuses) = 7
    /\ (val_pc = "loop" /\ val_read > 0) => ClaimMeetsContract(val_claim)
    /\ val_pc = "returned" =>
         val_result = IF /\ TopMeetsContract(val_top)
                         /\ val_read = 0 \/ ClaimMeetsContract(val_claim)
                      THEN "True" ELSE "False"

\* C22: validate_response never raises; for every parsed value it returns
\* True or False.  (Fails: an overall_score that is no number, a null
\* claims value, an element or a top-level value that is a number raise
\* TypeError, which the `except AssertionError` does not catch.)
C22_ValidateNeverRaises ==
    val_pc = "returned" => val_result \in {"True", "False"}

\* the claim at position i resolved on its own entry alone
ExpectedClaim(input, i) ==
    LET entry == input.entries[i]
        claim == input.claims[i]
    IN  IF entry \in {NoEntry, <<>>} THEN claim
        ELSE IF SearchSyncResult(input.service[entry]) # <<>>
        THEN SubstantiatedClaim(claim, entry, SearchSyncResult(input.service[entry]))
        ELSE UnsubstantiatedClaim(claim)

ExpectedClaims(input) == [i \in 1..Len(input.claims) |-> ExpectedClaim(input, i)]

ExpectedRaises(input) ==
    \E i \in 1..Len(input.claims) :
       /\ input.entries[i] \in OrderQueries
       /\ EntryRaises(input.claims[i], input.entries[i], input.service[input.entries[i]])

\* C23: with unique claim ids, at most one entry per claim and a service
\* that answers each query deterministically, the final claims and the
\* overall score are the same whatever the order the entries are taken in:
\* they are what each claim's own entry gives, or the error report when
\* some entry's lookup raises.
C23_OrderIndependent ==
    ord_pc = "done" =>
        IF ExpectedRaises(ord_input)
        THEN ord_error # "NONE" /\ ord_claims = <<>> /\ ord_score = 0
        ELSE /\ ord_error = "NONE"
             /\ ord_claims = ExpectedClaims(ord_input)
             /\ ord_score = calculate_score(ExpectedClaims(ord_input))

C23_Witness ==
    /\ ord_pc = "done"
    /\ ord_error = "NONE"
    /\ Len(ord_claims) >= 2
    /\ ord_claims[1].evidence_status = "UNSUBSTANTIATED"
    /\ ord_claims[2].evidence_status = "SUBSTANTIATED_PUBMED"
    /\ ord_input.entries[1] # ord_input.entries[2]

\* C24: lookup-or-insert is atomic per key: for each argument tuple
\* _search_sync runs at most once on the service, and the lookups of one
\* tuple that returned got the same result.
C24_LookupAtomicPerKey ==
    /\ \A tuple \in SearchTuples : thr_calls[tuple] <= 1
    /\ \A t, u \in Threads :
          (thr_pc[t] = "returned" /\ thr_pc[u] = "returned" /\ thr_tuple[t] = thr_tuple[u])
             => thr_result[t] = thr_result[u]

\* C25: the cache never holds more than its maximum number of entries
\* (CacheCapacity stands for maxsize=1000), no key twice; the key a search
\* has just used, hit or miss, is the most recently used one, and the key
\* an insertion into a full cache drops is never the one the search before
\* it used: the least recently used entry goes.
C25_BoundedLeastRecentlyUsed ==
    /\ Len(lru) <= CacheCapacity
    /\ \A i, j \in 1..Len(lru) : lru[i].key = lru[j].key => i = j
    /\ svc_last.op \in {"hit", "miss"}
         => lru[Len(lru)].key = CacheKey(svc_last.svc, svc_last.tuple)
    /\ svc_last.evicted => (Len(lru) = CacheCapacity /\ ~svc_last.evicted_last_used)

C25_Witness ==
    /\ svc_last.op = "miss"
    /\ svc_last.evicted
    /\ Len(lru) = CacheCapacity

NetworkFailures == {"search_error", "fetch_error"}

\* C29: a search whose external call failed with a network or HTTP error
\* returns empty and its empty result is stored like any other; a later
\* search that finds such an entry returns empty and makes no external
\* call, whatever the service would answer by then.
C29_FailureMemoized ==
    /\ svc_last.outcome \in NetworkFailures
         => /\ svc_last.op = "miss"
            /\ svc_last.result = <<>>
            /\ lru # <<>>
            /\ lru[Len(lru)] = [key |-> CacheKey(svc_last.svc, svc_last.tuple),
                                articles |-> <<>>, failed |-> TRUE]
    /\ \A i \in 1..Len(lru) : lru[i].failed => lru[i].articles = <<>>
    /\ (svc_last.op = "hit" /\ svc_last.failed)
         => (svc_last.result = <<>> /\ svc_last.calls = 0)

C29_Witness ==
    /\ svc_last.op = "hit"
    /\ svc_last.failed
    /\ svc_last.result = <<>>

\* C26: on a reply whose claims carry no pubmed_reference and none of which
\* is SUBSTANTIATED_PUBMED, while the resolver runs and in its report a
\* claim carries a pubmed_reference if and only if its evidence_status is
\* SUBSTANTIATED_PUBMED.  (Fails: the not-found branch sets the status and
\* the severity and leaves the reference an earlier entry attached.)
C26_ReferenceIffSubstantiated ==
    (pc \in {"resolve", "done"} /\ error = "NONE")
      => \A i \in 1..Len(claims) :
            claims[i].pubmed_reference.present
              <=> claims[i].evidence_status = "SUBSTANTIATED_PUBMED"

IsText(value) == value.kind \in {"str", "digits", "text"}

\* C27: every record _parse_pubmed_xml builds has a text (empty or not)
\* for pmid, title, journal, year and abstract and at most 5 authors,
\* whatever elements are absent or present without text, and
\* calculate_relevance_score of the record does not raise.  (Fails: an
\* element present without text gives None for pmid, title or journal, and
\* a None title cannot be scored.)
C27_ParsedRecordHasNoNull ==
    par_pc \in {"parsed", "scored"}
      => /\ \A value \in {par_article.pmid, par_article.title, par_article.journal,
                          par_article.year, par_article.abstract} : IsText(value)
         /\ Len(par_article.authors) <= KeptAuthors
         /\ par_pc = "scored" => par_result.raised = "no"

\* C28: in every report analyze returns without an error field, the
\* summary's total and per-status counts are the numbers of claims with
\* those statuses in the returned claim list.  (Fails: the summary is the
\* reply's; the resolver changes statuses and nothing recounts.)
C28_SummaryMatchesClaims ==
    (pc = "done" /\ error = "NONE")
      => /\ summary.keys = "all"
         /\ summary.total_claims = Len(claims)
         /\ \A st \in SummaryStatuses : summary.counts[st] = StatusCountsOf(claims)[st]

\* the counts of a list in which one claim went from one status, and one
\* severity, to another
MovedStatus(st, from, to) == CountStatus([st EXCEPT ![from] = @ - 1], to)
MovedSeverity(sev, from, to) ==
    CountSeverity(IF from \in CountedSeverities THEN [sev EXCEPT ![from] = @ - 1] ELSE sev, to)

\* severities a claim of the list read so far may carry
HeldSeverities ==
    {k \in CountedSeverities : severity_counts[k] > 0}
      \cup (IF no_severity > 0 THEN {"NONE"} ELSE {})
      \cup (IF total_claims - no_severity - severity_counts["CRITICAL"]
                 - severity_counts["MAJOR"] - severity_counts["MINOR"] > 0
            THEN {UnknownSeverity} ELSE {})

PendingClaim(severity) ==
    [NoClaim EXCEPT !.evidence_status = "NEEDS_PUBMED_CHECK", !.severity = severity]

\* calculate_score of the list after its NEEDS_PUBMED_CHECK claim of the
\* given severity has become the resolved claim
ScoreAfter(severity, resolved) ==
    ScoreOf(total_claims,
            MovedStatus(status_counts, "NEEDS_PUBMED_CHECK", resolved.evidence_status),
            MovedSeverity(severity_counts, severity, resolved.severity))
ScoreFound(severity) ==
    ScoreAfter(severity, SubstantiatedClaim(PendingClaim(severity), QueryA, <<ArticleRecent>>))
ScoreNotFound(severity) ==
    ScoreAfter(severity, UnsubstantiatedClaim(PendingClaim(severity)))

\* C30: for any claim list and any NEEDS_PUBMED_CHECK claim in it, the
\* score of the list with that claim resolved as found is never lower
\* than the score of the list as it is, and with the claim resolved as
\* not found never higher.
C30_ResolutionMovesScoreOneWay ==
    (sc_pc = "returned" /\ status_counts["NEEDS_PUBMED_CHECK"] > 0)
      => \A k \in HeldSeverities :
            /\ ScoreFound(k) >= final_score
            /\ ScoreNotFound(k) <= final_score

\* a flagged MAJOR claim: found raises the score, not found lowers it
C30_Witness ==
    /\ sc_pc = "returned"
    /\ status_counts["NEEDS_PUBMED_CHECK"] > 0
    /\ "MAJOR" \in HeldSeverities
    /\ ScoreFound("MAJOR") > final_score
    /\ ScoreNotFound("MAJOR") < final_score

====
